---- MODULE Spec2Model ----
(***************************************************************************)
(* Model of WEBRTC_GSTREAMER.cpp: a webrtcbin client that negotiates a     *)
(* WebRTC session with a realtime API.  The engine (webrtcbin) delivers    *)
(* its events serially; the offer promise callback blocks in two HTTP      *)
(* calls (create_ephemeral_key, post_offer_and_get_answer).                *)
(*                                                                         *)
(* Texts (SDP bodies, keys, messages) are sequences of tokens; the empty   *)
(* std::string is << >>.                                                   *)
(***************************************************************************)
EXTENDS Naturals, Sequences, FiniteSets

VARIABLES
    attempts,     \* one record per on-negotiation-needed delivered, in order, with
                  \* the calls issued for it (engine signals, HTTP requests)
    running,      \* attempt whose promise callback is executing (blocked in HTTP), 0: none
    opens,        \* number of on-open events delivered so far
    monitor,      \* last line written by the ICE handlers
    lastCred,     \* response create_ephemeral_key got in the callback now executing
    lastExch,     \* response the most recent post_offer_and_get_answer got, and its attempt
    apiKeySet     \* whether OPENAI_API_KEY is in the process environment

vars == <<attempts, running, opens, monitor, lastCred, lastExch, apiKeySet>>

\* ---------------------------------------------------------------- bounds
MaxAttempts == 2
MaxOpens == 2

\* ---------------------------------------------------------------- texts
Empty == << >>

\* The offer the engine generates for an attempt (gst_sdp_message_as_text).
OfferLine(a) == IF a = 1 THEN "o1" ELSE IF a = 2 THEN "o2" ELSE IF a = 3 THEN "o3" ELSE "o4"

OfferText(a) == <<"v", OfferLine(a)>>

\* The value of client_secret.value the service issues for an attempt's session.
KeyText(a) == <<IF a = 1 THEN "k1" ELSE IF a = 2 THEN "k2" ELSE IF a = 3 THEN "k3" ELSE "k4">>

\* event.dump() of the fixed session.update object (nlohmann::json writes the
\* keys of an object in alphabetical order).
SessionUpdate ==
    <<"session", "input_audio_format", "pcm24", "input_text", "true",
      "instructions",
      "You are connected from C++ GStreamer client with advanced VAD enabled (PCM24).",
      "output_audio_format", "pcm24", "output_text", "true",
      "voice_activity_detection", "mode", "advanced",
      "type", "session.update">>

\* ---------------------------------------------------------------- HTTP responses
\* A response seen by create_ephemeral_key: whether curl_easy_init gave a
\* handle, the CURLcode, and what nlohmann::json makes of the body.
CredResp(curl, res, valid, isObject, hasSecret, secretIsObject, hasValue, valueIsString, value) ==
    [curl |-> curl, res |-> res, valid |-> valid, isObject |-> isObject,
     hasSecret |-> hasSecret, secretIsObject |-> secretIsObject,
     hasValue |-> hasValue, valueIsString |-> valueIsString, value |-> value]

CredResponses(a) ==
    { CredResp(FALSE, "ERR", FALSE, FALSE, FALSE, FALSE, FALSE, FALSE, Empty),   \* no curl handle
      CredResp(TRUE, "ERR", FALSE, FALSE, FALSE, FALSE, FALSE, FALSE, Empty),    \* transport error
      CredResp(TRUE, "ERR", TRUE, TRUE, TRUE, TRUE, TRUE, TRUE, KeyText(a)),     \* error after the body arrived
      CredResp(TRUE, "OK", FALSE, FALSE, FALSE, FALSE, FALSE, FALSE, Empty),     \* body is not JSON
      CredResp(TRUE, "OK", TRUE, FALSE, FALSE, FALSE, FALSE, FALSE, Empty),      \* JSON, not an object
      CredResp(TRUE, "OK", TRUE, TRUE, FALSE, FALSE, FALSE, FALSE, Empty),       \* no client_secret
      CredResp(TRUE, "OK", TRUE, TRUE, TRUE, FALSE, FALSE, FALSE, Empty),        \* client_secret not an object
      CredResp(TRUE, "OK", TRUE, TRUE, TRUE, TRUE, FALSE, FALSE, Empty),         \* no client_secret.value
      CredResp(TRUE, "OK", TRUE, TRUE, TRUE, TRUE, TRUE, FALSE, <<"7">>),        \* value is a number
      CredResp(TRUE, "OK", TRUE, TRUE, TRUE, TRUE, TRUE, TRUE, KeyText(a)) }      \* value is a string

\* A response seen by post_offer_and_get_answer: the body arrives in chunks.
\* Line "v" is an SDP line, "x" is a line that is no SDP.
ExchResp(curl, res, chunks) == [curl |-> curl, res |-> res, chunks |-> chunks]

ExchResponses ==
    { ExchResp(FALSE, "ERR", << >>),                  \* no curl handle
      ExchResp(TRUE, "ERR", << >>),                   \* transport error, nothing received
      ExchResp(TRUE, "ERR", << <<"v">> >>),           \* transport error after part of the body
      ExchResp(TRUE, "OK", << >>),                    \* empty body
      ExchResp(TRUE, "OK", << <<"v">> >>),            \* an SDP answer
      ExchResp(TRUE, "OK", << <<"v">>, <<"x">> >>) }  \* two chunks, the second is no SDP

NoCred == [curl |-> FALSE, res |-> "none", valid |-> FALSE, isObject |-> FALSE,
           hasSecret |-> FALSE, secretIsObject |-> FALSE, hasValue |-> FALSE,
           valueIsString |-> FALSE, value |-> Empty]
NoExch == [att |-> 0, resp |-> [curl |-> FALSE, res |-> "none", chunks |-> << >>]]

\* ---------------------------------------------------------------- pure functions
\* WriteCallback: append the received bytes to the buffer.
WriteCallback(userp, contents) == userp \o contents

\* curl_easy_perform delivering the body chunk by chunk through WriteCallback.
RECURSIVE Receive(_, _)
Receive(readBuffer, chunks) ==
    IF chunks = << >> THEN readBuffer
    ELSE Receive(WriteCallback(readBuffer, Head(chunks)), Tail(chunks))

\* post_offer_and_get_answer: readBuffer is returned whatever the CURLcode is.
post_offer_and_get_answer(resp) ==
    IF ~resp.curl THEN Empty
    ELSE Receive(Empty, resp.chunks)

\* Variant: the CURLcode is not looked at before the body is parsed.
create_ephemeral_key_AnyResult(resp) ==
    IF ~resp.curl THEN Empty
    ELSE IF ~resp.valid THEN Empty
    ELSE IF ~(resp.isObject /\ resp.hasSecret /\ resp.secretIsObject /\ resp.hasValue) THEN Empty
    ELSE IF ~resp.valueIsString THEN Empty
    ELSE resp.value

\* create_ephemeral_key: the key stays empty unless the transfer succeeded,
\* the body parsed, both contains() tests passed and the value converts to
\* std::string (a parse_error or type_error is caught and leaves it empty).
create_ephemeral_key(resp) ==
    IF ~resp.curl THEN Empty
    ELSE IF resp.res # "OK" THEN Empty
    ELSE IF ~resp.valid THEN Empty
    ELSE IF ~(resp.isObject /\ resp.hasSecret /\ resp.secretIsObject /\ resp.hasValue) THEN Empty
    ELSE IF ~resp.valueIsString THEN Empty
    ELSE resp.value

\* gst_sdp_message_parse_buffer: the message holds the lines that parse; the
\* result says whether every line did.
IsSdpLine(line) == line # "x"

ParseBuffer(text) ==
    [ok |-> \A i \in 1..Len(text) : IsSdpLine(text[i]),
     msg |-> SelectSeq(text, IsSdpLine)]

\* Variant: the emptiness test is missing.
AnswerNonEmpty_Always(answer_sdp) == TRUE

\* if (!answer_sdp.empty())
AnswerNonEmpty(answer_sdp) == answer_sdp # Empty

\* if (data_channel): on-open is connected only for a non-null channel.
HandlerConnected(data_channel) == data_channel

\* Variant: the handler returns early when the channel is null.
OfferRequested_OnlyWithChannel(data_channel) == data_channel

\* create-offer is emitted at the end of on_negotiation_needed on both branches.
OfferRequested(data_channel) == TRUE

\* Variant: the text of the first offer is kept and sent again.
PostBody_FirstOffer(a) == OfferText(1)

\* The body handed to post_offer_and_get_answer: sdp_str, the text of the
\* offer of this callback.
PostBody(a) == OfferText(a)

\* Variant: the key of the previous attempt is kept and used again.
AuthorizationKey_Stale(a, ephemeral_key) ==
    IF a > 1 THEN attempts[a - 1].key ELSE ephemeral_key

\* The key handed to post_offer_and_get_answer is the one just returned.
AuthorizationKey(a, ephemeral_key) == ephemeral_key

\* on_ice_state_change: the line printed for a connection state.
IceStates ==
    {"NEW", "CHECKING", "CONNECTED", "COMPLETED", "FAILED", "DISCONNECTED", "CLOSED", "OTHER"}

IceCategory(state) ==
    CASE state = "NEW" -> "New"
      [] state = "CHECKING" -> "Checking"
      [] state = "CONNECTED" -> "Connected"
      [] state = "COMPLETED" -> "Completed"
      [] state = "FAILED" -> "Failed"
      [] state = "DISCONNECTED" -> "Disconnected"
      [] state = "CLOSED" -> "Closed"
      [] OTHER -> "Unknown"

\* ---------------------------------------------------------------- calls
\* A call issued on behalf of an attempt: an engine signal or an HTTP request.
Call(call, text, key, ok) == [call |-> call, text |-> text, key |-> key, ok |-> ok]

Attempts == 1..Len(attempts)

\* Positions, in the calls of attempt a, of the calls named `call`.
CallsOf(call, a) ==
    {i \in 1..Len(attempts[a].calls) : attempts[a].calls[i].call = call}

Terminal(a) == attempts[a].phase \in {"AnswerApplied", "Failed"}

\* The attempts whose callback has not returned yet.
InFlight == {a \in Attempts : ~Terminal(a)}

\* Variant: events are dispatched while a callback waits for its HTTP call.
LoopIdle_Reentrant == TRUE

\* The engine delivers its events one at a time: a handler starts only when
\* no promise callback is executing (the callback blocks in curl_easy_perform
\* and returns to the engine only at its end).
LoopIdle == running = 0

\* ---------------------------------------------------------------- state machine
Init ==
    /\ attempts = << >>
    /\ running = 0
    /\ opens = 0
    /\ monitor = "none"
    /\ lastCred = NoCred
    /\ lastExch = NoExch
    /\ apiKeySet \in BOOLEAN

\* Variant: create-offer is emitted before the data channel is created.
NegotiationCalls_OfferFirst(data_channel) ==
    <<Call("create_offer", Empty, Empty, TRUE),
      Call("create_data_channel", Empty, Empty, data_channel)>>

\* Variant: the data channel is created on the first trigger only.
NegotiationCalls_ChannelOnce(data_channel) ==
    IF Len(attempts) = 0
    THEN <<Call("create_data_channel", Empty, Empty, data_channel),
           Call("create_offer", Empty, Empty, TRUE)>>
    ELSE <<Call("create_offer", Empty, Empty, TRUE)>>

\* The calls on_negotiation_needed makes.
NegotiationCalls(data_channel) ==
    <<Call("create_data_channel", Empty, Empty, data_channel)>>
    \o (IF OfferRequested(data_channel)
        THEN <<Call("create_offer", Empty, Empty, TRUE)>>
        ELSE << >>)

\* Create the data channel, connect on-open when the
\* channel exists, then ask the engine for an offer.  The handler keeps no
\* record of earlier attempts; `active` notes which were in flight.
on_negotiation_needed ==
    /\ LoopIdle
    /\ Len(attempts) < MaxAttempts
    /\ \E data_channel \in BOOLEAN :
         attempts' = Append(attempts,
             [phase |-> "AwaitingOffer",
              channel |-> HandlerConnected(data_channel),
              active |-> InFlight,
              calls |-> NegotiationCalls(data_channel),
              key |-> Empty, answer |-> Empty, sent |-> << >>])
    /\ UNCHANGED <<running, opens, monitor, lastCred, lastExch, apiKeySet>>

\* Variant: the offer is never set as the local description.
OfferReplyCalls_NoLocal(a, localOk) ==
    <<Call("fetch_credential", Empty, Empty, TRUE)>>

\* Variant: the callback returns when the engine rejects the local description.
OfferReplyCalls_StopOnReject(a, localOk) ==
    IF localOk
    THEN <<Call("set_local_description", OfferText(a), Empty, localOk),
           Call("fetch_credential", Empty, Empty, TRUE)>>
    ELSE <<Call("set_local_description", OfferText(a), Empty, localOk)>>

\* The calls the promise callback makes up to the first blocking request.
OfferReplyCalls(a, localOk) ==
    <<Call("set_local_description", OfferText(a), Empty, localOk),
      Call("fetch_credential", Empty, Empty, TRUE)>>

\* The promise callback, from the reply to the call of create_ephemeral_key.
\* localOk: whether the engine accepts the local description (not observed).
OfferReply(a) ==
    /\ LoopIdle
    /\ a \in Attempts
    /\ attempts[a].phase = "AwaitingOffer"
    /\ CallsOf("create_offer", a) # {}
    /\ \E localOk \in BOOLEAN :
         attempts' = [attempts EXCEPT ![a].phase = "AwaitingCredential",
                                      ![a].calls = @ \o OfferReplyCalls(a, localOk)]
    /\ running' = a
    /\ UNCHANGED <<opens, monitor, lastCred, lastExch, apiKeySet>>

\* create_ephemeral_key builds std::string from std::getenv("OPENAI_API_KEY")
\* once it has a curl handle.  With the variable unset that is a null pointer
\* and the behaviour is undefined: the process may end there (an uncaught
\* std::logic_error, a fault in strlen) or go on with some string.
GetenvUndefined(resp) == resp.curl /\ ~apiKeySet

\* The process ends inside create_ephemeral_key: no handler runs any more.
CredentialCrash ==
    /\ running # 0
    /\ attempts[running].phase = "AwaitingCredential"
    /\ \E resp \in CredResponses(running) : GetenvUndefined(resp)
    /\ attempts' = [attempts EXCEPT ![running].phase = "Crashed"]
    /\ UNCHANGED <<running, opens, monitor, lastCred, lastExch, apiKeySet>>

\* create_ephemeral_key returns; post_offer_and_get_answer is called with the
\* offer text and the returned key.
CredentialReturn ==
    /\ running # 0
    /\ attempts[running].phase = "AwaitingCredential"
    /\ \E resp \in CredResponses(running) :
         LET ephemeral_key == create_ephemeral_key(resp) IN
         /\ attempts' = [attempts EXCEPT
                ![running].phase = "AwaitingAnswer",
                ![running].key = ephemeral_key,
                ![running].calls = Append(@,
                    Call("post_offer", PostBody(running),
                         AuthorizationKey(running, ephemeral_key), TRUE))]
         /\ lastCred' = resp
    /\ UNCHANGED <<running, opens, monitor, lastExch, apiKeySet>>

\* Variant: the remote description is set a second time.
AnswerCalls_Twice(answer_sdp) ==
    IF AnswerNonEmpty(answer_sdp)
    THEN <<Call("set_remote_description", ParseBuffer(answer_sdp).msg, Empty, TRUE),
           Call("set_remote_description", ParseBuffer(answer_sdp).msg, Empty, TRUE)>>
    ELSE << >>

\* Variant: an empty answer makes the callback post the offer again.
AnswerCalls_Retry(answer_sdp) ==
    IF AnswerNonEmpty(answer_sdp)
    THEN <<Call("set_remote_description", ParseBuffer(answer_sdp).msg, Empty, TRUE)>>
    ELSE <<Call("post_offer", Empty, Empty, TRUE)>>

\* The calls made once post_offer_and_get_answer has returned answer_sdp: a
\* non-empty answer is parsed (the result is not looked at) and set.
AnswerCalls(answer_sdp) ==
    IF AnswerNonEmpty(answer_sdp)
    THEN <<Call("set_remote_description", ParseBuffer(answer_sdp).msg, Empty, TRUE)>>
    ELSE << >>

\* post_offer_and_get_answer returns; the answer is handled and the callback
\* returns.  The attempt ends "AnswerApplied" when the remote description was
\* set and "Failed" when the callback returned without setting it.
ExchangeReturn ==
    /\ running # 0
    /\ attempts[running].phase = "AwaitingAnswer"
    /\ \E resp \in ExchResponses :
         LET answer_sdp == post_offer_and_get_answer(resp) IN
         /\ attempts' = [attempts EXCEPT
                ![running].phase =
                    IF AnswerCalls(answer_sdp) # << >> THEN "AnswerApplied" ELSE "Failed",
                ![running].answer = answer_sdp,
                ![running].calls = @ \o AnswerCalls(answer_sdp)]
         /\ lastExch' = [att |-> running, resp |-> resp]
    /\ lastCred' = NoCred
    /\ running' = 0
    /\ UNCHANGED <<opens, monitor, apiKeySet>>

\* Send the session.update message over the channel.
on_data_channel_open(c) ==
    /\ LoopIdle
    /\ c \in Attempts
    /\ attempts[c].channel
    /\ opens < MaxOpens
    /\ attempts' = [attempts EXCEPT ![c].sent = Append(@, SessionUpdate)]
    /\ opens' = opens + 1
    /\ UNCHANGED <<running, monitor, lastCred, lastExch, apiKeySet>>

\* Variant: a failed connection makes the handler ask for a new offer.
on_ice_state_change_Restarts ==
    /\ LoopIdle
    /\ Len(attempts) > 0
    /\ \E state \in IceStates :
         /\ monitor' = IceCategory(state)
         /\ attempts' =
                IF state = "FAILED"
                THEN [attempts EXCEPT ![Len(attempts)].calls =
                         Append(@, Call("create_offer", Empty, Empty, TRUE))]
                ELSE attempts
    /\ UNCHANGED <<running, opens, lastCred, lastExch, apiKeySet>>

\* Print the category of the engine's state.
on_ice_state_change ==
    /\ LoopIdle
    /\ \E state \in IceStates : monitor' = IceCategory(state)
    /\ UNCHANGED <<attempts, running, opens, lastCred, lastExch, apiKeySet>>

\* Print the candidate.
on_ice_candidate ==
    /\ LoopIdle
    /\ monitor' = "Candidate gathered"
    /\ UNCHANGED <<attempts, running, opens, lastCred, lastExch, apiKeySet>>

Next ==
    \/ on_negotiation_needed
    \/ \E a \in 1..MaxAttempts : OfferReply(a)
    \/ CredentialReturn
    \/ CredentialCrash
    \/ ExchangeReturn
    \/ \E c \in 1..MaxAttempts : on_data_channel_open(c)
    \/ on_ice_state_change
    \/ on_ice_candidate

Spec == Init /\ [][Next]_vars

\* Each blocking HTTP call returns: curl_easy_perform ends, with a result or
\* an error, so a callback waiting in one of the two calls goes on.
FairSpec == Spec /\ WF_vars(CredentialReturn) /\ WF_vars(ExchangeReturn)

TypeOK ==
    /\ running \in 0..Len(attempts)
    /\ opens \in 0..MaxOpens
    /\ Len(attempts) <= MaxAttempts

\* ---------------------------------------------------------------- properties
Issued(call, a) == CallsOf(call, a) # {}

\* The engine's answer to create-data-channel for attempt a (TRUE: a channel).
ChannelCreated(a) == attempts[a].calls[1].ok

\* The credential fetch of attempt a has returned.
FetchReturned(a) == attempts[a].phase \in {"AwaitingAnswer", "AnswerApplied", "Failed"}

\* The chunks of a response body, joined.
RECURSIVE Flatten(_)
Flatten(chunks) ==
    IF chunks = << >> THEN << >> ELSE Head(chunks) \o Flatten(Tail(chunks))

\* C1: in every attempt, each set_remote_description call comes after a
\* set_local_description call of the same attempt.
C1_LocalBeforeRemote ==
    \A a \in Attempts :
        \A j \in CallsOf("set_remote_description", a) :
            \E i \in CallsOf("set_local_description", a) : i < j

C1_Witness ==
    \E a \in Attempts :
        /\ Issued("set_remote_description", a)
        /\ Issued("set_local_description", a)

\* C2 (as claimed): an attempt whose credential fetch returned an empty key
\* is Failed and has no exchange POST.
C2_EmptyKeyNoPost ==
    \A a \in Attempts :
        (FetchReturned(a) /\ attempts[a].key = Empty)
            => (attempts[a].phase = "Failed" /\ ~Issued("post_offer", a))

\* C3: an attempt whose exchange returned the empty string ends Failed and
\* has no set_remote_description call.
C3_EmptyAnswerFails ==
    \A a \in Attempts :
        (Terminal(a) /\ attempts[a].answer = Empty)
            => (attempts[a].phase = "Failed" /\ ~Issued("set_remote_description", a))

C3_Witness ==
    \E a \in Attempts :
        /\ Terminal(a)
        /\ attempts[a].answer = Empty
        /\ lastExch.att = a
        /\ lastExch.resp.curl

\* C4 (as claimed): an attempt whose answer is non-empty but does not parse
\* ends Failed and has no set_remote_description call.
C4_MalformedAnswerFails ==
    \A a \in Attempts :
        (Terminal(a) /\ attempts[a].answer # Empty /\ ~ParseBuffer(attempts[a].answer).ok)
            => (attempts[a].phase = "Failed" /\ ~Issued("set_remote_description", a))

\* C5 (as claimed): when an attempt is triggered while an earlier one is in
\* flight, set_remote_description is not issued for both.
C5_NoDoubleApply ==
    \A b \in Attempts :
        \A a \in attempts[b].active :
            ~(Issued("set_remote_description", a) /\ Issued("set_remote_description", b))

\* C6 (as claimed): at most one session.update message is sent over a
\* channel, however many open events it gets.
C6_OneSessionUpdate ==
    \A c \in Attempts : Len(attempts[c].sent) <= 1

\* C7: when create-data-channel gave no channel, create-offer is still
\* issued, nothing is ever sent for the attempt, and the attempt ends
\* AnswerApplied when its key is non-empty and its answer parses.
C7_NullChannelProceeds ==
    \A a \in Attempts :
        ~ChannelCreated(a) =>
            /\ Issued("create_offer", a)
            /\ attempts[a].sent = << >>
            /\ (/\ Terminal(a)
                /\ attempts[a].key # Empty
                /\ attempts[a].answer # Empty
                /\ ParseBuffer(attempts[a].answer).ok)
                   => attempts[a].phase = "AnswerApplied"

C7_Witness ==
    \E a \in Attempts :
        /\ ~ChannelCreated(a)
        /\ attempts[a].phase = "AnswerApplied"
        /\ attempts[a].key # Empty
        /\ ParseBuffer(attempts[a].answer).ok
        /\ opens > 0

\* C8: the key create_ephemeral_key returns is client_secret.value when the
\* transfer succeeded and the body is a JSON object holding that string, and
\* is empty for every other response.
C8_CredentialValue ==
    (running # 0 /\ attempts[running].phase = "AwaitingAnswer") =>
        LET r == lastCred
            hasField == /\ r.curl /\ r.res = "OK" /\ r.valid /\ r.isObject
                        /\ r.hasSecret /\ r.secretIsObject /\ r.hasValue
                        /\ r.valueIsString
        IN attempts[running].key = IF hasField THEN r.value ELSE Empty

C8_Witness ==
    /\ running # 0
    /\ attempts[running].phase = "AwaitingAnswer"
    /\ lastCred.res = "OK"
    /\ lastCred.valueIsString
    /\ attempts[running].key = KeyText(running)

\* C9 (as claimed): the exchange client returns the response body when the
\* transfer succeeded and the empty string when it failed.
C9_ExchangeResult ==
    lastExch.att # 0 =>
        attempts[lastExch.att].answer =
            IF lastExch.resp.curl /\ lastExch.resp.res = "OK"
            THEN Flatten(lastExch.resp.chunks)
            ELSE Empty

\* C10: every exchange POST of an attempt comes after that attempt's
\* credential fetch was issued and had returned, and carries the key that
\* fetch returned.
C10_FetchBeforePost ==
    \A a \in Attempts :
        \A j \in CallsOf("post_offer", a) :
            /\ \E i \in CallsOf("fetch_credential", a) : i < j
            /\ FetchReturned(a)
            /\ attempts[a].calls[j].key = attempts[a].key
            /\ (running = a /\ attempts[a].phase = "AwaitingAnswer")
                   => attempts[a].calls[j].key = create_ephemeral_key(lastCred)

C10_Witness ==
    \E a \in Attempts :
        /\ a > 1
        /\ Issued("post_offer", a)
        /\ attempts[a].key # Empty
        /\ attempts[a - 1].key = Empty
        /\ FetchReturned(a - 1)

\* The names of the calls of attempt a, in order.
CallNames(a) == [i \in 1..Len(attempts[a].calls) |-> attempts[a].calls[i].call]

\* C11: every attempt has exactly one create_offer call and at most one
\* set_remote_description call, and exactly one when its exchange returned
\* a non-empty body.
C11_OneOfferOneAnswer ==
    \A a \in Attempts :
        /\ Cardinality(CallsOf("create_offer", a)) = 1
        /\ Cardinality(CallsOf("set_remote_description", a)) <= 1
        /\ (Terminal(a) /\ attempts[a].answer # Empty)
               => Cardinality(CallsOf("set_remote_description", a)) = 1

C11_Witness ==
    \E a \in Attempts :
        /\ Terminal(a)
        /\ attempts[a].answer # Empty
        /\ ~ParseBuffer(attempts[a].answer).ok
        /\ Cardinality(CallsOf("set_remote_description", a)) = 1

\* C12: in every attempt create_data_channel is issued, and before the
\* create_offer of that attempt, whether or not a channel was created.
C12_ChannelBeforeOffer ==
    \A a \in Attempts :
        /\ Issued("create_data_channel", a)
        /\ \A j \in CallsOf("create_offer", a) :
               \E i \in CallsOf("create_data_channel", a) : i < j

C12_Witness ==
    \E a \in Attempts :
        /\ attempts[a].phase = "AwaitingOffer"
        /\ ~attempts[a].channel
        /\ Issued("create_offer", a)
        /\ Issued("create_data_channel", a)

\* C13: two finished attempts that got the same answer made the same
\* sequence of calls, and an attempt that ended AnswerApplied made exactly
\* create_data_channel, create_offer, set_local_description,
\* fetch_credential, post_offer, set_remote_description.
C13_SameCallSequence ==
    \A a \in Attempts :
        /\ \A b \in Attempts :
               (Terminal(a) /\ Terminal(b) /\ attempts[a].answer = attempts[b].answer)
                   => CallNames(a) = CallNames(b)
        /\ attempts[a].phase = "AnswerApplied"
               => CallNames(a) =
                      <<"create_data_channel", "create_offer", "set_local_description",
                        "fetch_credential", "post_offer", "set_remote_description">>

C13_Witness ==
    \E a \in Attempts : \E b \in Attempts :
        /\ a < b
        /\ attempts[a].phase = "AnswerApplied"
        /\ attempts[b].phase = "AnswerApplied"
        /\ attempts[a].answer = attempts[b].answer

\* C14: when the engine rejected the local description of an attempt, the
\* credential fetch is still issued after it and, once the fetch has
\* returned, the exchange POST carries the text of that offer.
C14_RejectedLocalProceeds ==
    \A a \in Attempts :
        \A i \in CallsOf("set_local_description", a) :
            ~attempts[a].calls[i].ok =>
                /\ \E j \in CallsOf("fetch_credential", a) : i < j
                /\ FetchReturned(a) =>
                       \E k \in CallsOf("post_offer", a) :
                           /\ i < k
                           /\ attempts[a].calls[k].text = attempts[a].calls[i].text

C14_Witness ==
    \E a \in Attempts :
        /\ \E i \in CallsOf("set_local_description", a) : ~attempts[a].calls[i].ok
        /\ Issued("post_offer", a)
        /\ attempts[a].phase = "AnswerApplied"

\* C15: no step leaves an attempt with more than one create_offer, credential
\* fetch or exchange POST, and no step adds a call to an attempt that has
\* ended.
C15_NoRetry ==
    [][\A a \in Attempts :
          /\ Cardinality(CallsOf("create_offer", a)') <= 1
          /\ Cardinality(CallsOf("fetch_credential", a)') <= 1
          /\ Cardinality(CallsOf("post_offer", a)') <= 1
          /\ Terminal(a) => attempts'[a].calls = attempts[a].calls]_vars

C15_Witness ==
    \E a \in Attempts : \E b \in Attempts :
        /\ a < b
        /\ attempts[a].phase = "Failed"
        /\ Issued("post_offer", a)
        /\ Issued("post_offer", b)

\* C16 (as claimed): with the API secret absent no attempt reaches the
\* credential fetch.
C16_SecretCheckedFirst ==
    ~apiKeySet => \A a \in Attempts : ~Issued("fetch_credential", a)

\* C17: a step of an ICE handler (the only steps that write the monitor line)
\* changes nothing else: no attempt, no call, no message, no callback state.
C17_MonitorObservesOnly ==
    [][monitor' # monitor
          => UNCHANGED <<attempts, running, opens, lastCred, lastExch, apiKeySet>>]_vars

C17_Witness ==
    /\ monitor \in {"Failed", "Disconnected", "Candidate gathered"}
    /\ \E a \in Attempts : attempts[a].phase = "AwaitingOffer"
    /\ \E a \in Attempts : attempts[a].phase = "AnswerApplied"

\* C18: while a promise callback is executing, every step is a step of that
\* callback: no attempt is added, no other attempt changes, no message is
\* sent, the monitor prints nothing, and no other callback starts.
C18_CallbackNotInterleaved ==
    [][running # 0 =>
          /\ running' \in {running, 0}
          /\ Len(attempts') = Len(attempts)
          /\ \A a \in Attempts : a # running => attempts'[a] = attempts[a]
          /\ attempts'[running].sent = attempts[running].sent
          /\ opens' = opens
          /\ monitor' = monitor]_vars

C18_Witness ==
    /\ running # 0
    /\ attempts[running].phase = "AwaitingAnswer"
    /\ opens < MaxOpens
    /\ \E b \in Attempts :
          /\ b # running
          /\ attempts[b].phase = "AwaitingOffer"
          /\ attempts[b].channel

\* C19: the body of every exchange POST of an attempt is the text of the
\* offer set as that attempt's local description, and of no other attempt's.
C19_PostsOwnOffer ==
    \A a \in Attempts :
        \A j \in CallsOf("post_offer", a) :
            /\ \E i \in CallsOf("set_local_description", a) :
                   /\ i < j
                   /\ attempts[a].calls[i].text = attempts[a].calls[j].text
            /\ \A b \in Attempts \ {a} :
                   \A i \in CallsOf("set_local_description", b) :
                       attempts[b].calls[i].text # attempts[a].calls[j].text

C19_Witness ==
    \E a \in Attempts :
        /\ a > 1
        /\ Issued("post_offer", a)
        /\ Issued("post_offer", a - 1)

\* C20 (as claimed): an attempt whose offer was delivered (its callback has
\* started) eventually ends AnswerApplied or Failed, and an attempt that has
\* ended gets no further call.
C20_AttemptTerminates ==
    /\ \A a \in 1..MaxAttempts :
          [](  (a \in Attempts /\ attempts[a].phase = "AwaitingCredential")
            => <>(a \in Attempts /\ Terminal(a)))
    /\ [][\A a \in Attempts : Terminal(a) => attempts'[a].calls = attempts[a].calls]_vars

====
